---- MODULE Spec2Model ----
(***************************************************************************)
(* Model of scripts/ruuvi.py: one run of the collector-and-forwarder       *)
(* script.  The script is a straight line of statements; every statement   *)
(* that talks to the outside world (argparse, the sensor library, the HTTP *)
(* library) is one action whose outcome is chosen by the environment.      *)
(*                                                                         *)
(* Strings given on the command line are sequences of one-character        *)
(* strings, so that str.split is computed and not assumed.  An optional    *)
(* Python value (None / unbound name versus a value) is a sequence of      *)
(* length 0 or 1.  The timestamp prefix of the log lines is the same       *)
(* constant string on every line of a run and is left out.                 *)
(***************************************************************************)
EXTENDS Integers, Sequences, FiniteSets, TLC

VARIABLES
    argv,        \* the command line handed to the process
    pc,          \* the statement the run is at
    args_macs,   \* args.macs: <<>> is None, <<s>> is the string s
    macs,        \* the module-level name macs: <<>> is unbound, <<l>> is bound to l
    datas,       \* the name datas: <<>> unbound, <<d>> bound to the reading set d
    response,    \* the name response: <<>> unbound, <<st>> a response of status st
    exc,         \* the exception in flight inside the try statement, <<>> if none
    trace,       \* what the run did so far, in order: lines printed, calls made, raises
    exitStatus   \* <<>> while running, <<code>> once the process has ended

vars == <<argv, pc, args_macs, macs, datas, response, exc, trace, exitStatus>>

----------------------------------------------------------------------------
(* Bounds of the model *)

\* longest --macs string enumerated character by character
MaxLen == 3

\* tenths of a degree a modelled reading can take above 21.5
MaxReadingStep == 1

----------------------------------------------------------------------------
(* Program constants *)

timeout_in_sec == 90

post_timeout == 4

url == "http://localhost:3001/api/ruuvi"

\* the status argparse ends the process with on a bad command line
UsageExit == 2

\* the status the interpreter ends with after an uncaught exception
UncaughtExit == 1

\* the status of exit(1)
ExitFailure == UncaughtExit

\* the status of exit(0)
ExitOk == 0

----------------------------------------------------------------------------
(* Inputs *)

Str(n) == [1..n -> {"A", ",", " "}]

\* "AA:BB:CC,DD:EE:FF" of the usage example, character by character
ExampleMacs ==
    <<"A","A",":","B","B",":","C","C",",","D","D",":","E","E",":","F","F">>

MacStrings == UNION {Str(n) : n \in 0..MaxLen} \cup {ExampleMacs}

\* the command lines: rejected by argparse, without --macs, or with --macs s
CommandLines ==
    {[ok |-> FALSE, macs |-> <<>>]}
        \cup {[ok |-> TRUE, macs |-> m] : m \in {<<>>} \cup {<<s>> : s \in MacStrings}}

Identifiers == {"AA:BB:CC", "DD:EE:FF"}

Readings == {[temperature |-> 215 + k] : k \in 0..MaxReadingStep}

\* what the sensor library can return: a mapping from identifiers to readings
ReadingSets == UNION {[ids -> Readings] : ids \in SUBSET Identifiers}

\* the statuses the endpoint can answer with
Statuses == {200, 204, 304, 404, 500}

\* exception classes; the first three derive from requests' RequestException
RequestExceptionClasses ==
    {"requests.ConnectionError", "requests.Timeout", "requests.HTTPError"}

\* what the black-box retrieval call can raise
RetrievalRaises == {"RuntimeError", "OSError", "requests.ConnectionError"}

\* what requests.post can raise: transport failure, timeout, unserialisable body
PostRaises == {"requests.ConnectionError", "requests.Timeout", "TypeError"}

----------------------------------------------------------------------------
(* Pure helpers *)

\* Python truthiness of args.macs: None and "" are false
Truthy(v) == v # <<>> /\ v[1] # <<>>

\* s.split(sep, 1): splits at the first separator only
SplitOnce(s, sep) ==
    IF \E i \in 1..Len(s) : s[i] = sep
    THEN LET i == CHOOSE k \in 1..Len(s) :
                      s[k] = sep /\ \A j \in 1..(k - 1) : s[j] # sep
         IN  <<SubSeq(s, 1, i - 1), SubSeq(s, i + 1, Len(s))>>
    ELSE <<s>>

\* s.split(sep) for a one-character separator
RECURSIVE Split(_, _)
Split(s, sep) ==
    IF \E i \in 1..Len(s) : s[i] = sep
    THEN LET i == CHOOSE k \in 1..Len(s) :
                      s[k] = sep /\ \A j \in 1..(k - 1) : s[j] # sep
         IN  <<SubSeq(s, 1, i - 1)>> \o Split(SubSeq(s, i + 1, Len(s)), sep)
    ELSE <<s>>

\* isinstance(e, requests.exceptions.ConnectionError): transport failures only
IsConnectionError(cls) == cls = "requests.ConnectionError"

\* isinstance(e, requests.exceptions.RequestException)
IsRequestException(cls) == cls \in RequestExceptionClasses

\* isinstance(e, NameError)
IsNameError(cls) == cls = "NameError"

\* isinstance(e, Exception): everything but the BaseException-only classes
IsException(cls) == cls \notin {"KeyboardInterrupt", "SystemExit", "GeneratorExit"}

\* a status check that raises for 5xx only
IsServerErrorStatus(st) == 500 <= st /\ st < 600

\* Response.raise_for_status raises HTTPError for 4xx and 5xx
IsErrorStatus(st) == 400 <= st /\ st < 600

\* a body that keeps only the readings of the first identifier
PostBodyFirstOnly(d) == [k \in DOMAIN d \cap {"AA:BB:CC"} |-> d[k]]

\* the json= argument of requests.post
PostBody(d) == d

Printed(line, arg) == [ev |-> "print", line |-> line, arg |-> arg]

Raised(cls, at) == [ev |-> "raise", cls |-> cls, at |-> at]

----------------------------------------------------------------------------
Init ==
    /\ argv \in CommandLines
    /\ pc = "parse_args"
    /\ args_macs = <<>>
    /\ macs = <<>>
    /\ datas = <<>>
    /\ response = <<>>
    /\ exc = <<>>
    /\ trace = <<>>
    /\ exitStatus = <<>>

\* line 21: parser.parse_args() ends the process with status 2 on a bad command line
ParseArgs ==
    /\ pc = "parse_args"
    /\ IF argv.ok
       THEN /\ args_macs' = argv.macs
            /\ pc' = "check_macs"
            /\ exitStatus' = exitStatus
       ELSE /\ args_macs' = args_macs
            /\ pc' = "done"
            /\ exitStatus' = <<UsageExit>>
    /\ UNCHANGED <<argv, macs, datas, response, exc, trace>>

\* lines 25-30 with the else branch printing the unbound name macs: the NameError
\* is raised outside the try statement and ends the process
CheckMacsPrintsUnbound ==
    /\ pc = "check_macs"
    /\ IF Truthy(args_macs)
       THEN /\ macs' = <<Split(args_macs[1], ",")>>
            /\ trace' = Append(trace, Printed("MAC addresses:", macs'[1]))
            /\ pc' = "get_data"
            /\ exitStatus' = exitStatus
       ELSE /\ macs' = macs
            /\ trace' = Append(trace, Raised("NameError", "macs"))
            /\ pc' = "done"
            /\ exitStatus' = <<UncaughtExit>>
    /\ UNCHANGED <<argv, args_macs, datas, response, exc>>

\* lines 25-30: bind macs and print it, or print that none were given
CheckMacs ==
    /\ pc = "check_macs"
    /\ IF Truthy(args_macs)
       THEN /\ macs' = <<Split(args_macs[1], ",")>>
            /\ trace' = Append(trace, Printed("MAC addresses:", macs'[1]))
       ELSE /\ macs' = macs
            /\ trace' = Append(trace, Printed("No MAC addresses provided.", <<>>))
    /\ pc' = "get_data"
    /\ UNCHANGED <<argv, args_macs, datas, response, exc, exitStatus>>

\* line 38: evaluate the name macs, then call the sensor library
GetData ==
    /\ pc = "get_data"
    /\ IF macs = <<>>
       THEN /\ exc' = <<"NameError">>
            /\ trace' = Append(trace, Raised("NameError", "macs"))
            /\ pc' = "except"
            /\ datas' = datas
       ELSE LET call == [ev |-> "get_data_for_sensors", macs |-> macs[1],
                         timeout |-> timeout_in_sec]
            IN  \/ \E d \in ReadingSets :
                      /\ datas' = <<d>>
                      /\ trace' = Append(trace, call)
                      /\ pc' = "print_fetched"
                      /\ exc' = exc
                \/ \E cls \in RetrievalRaises :
                      /\ exc' = <<cls>>
                      /\ trace' = trace \o <<call, Raised(cls, "get_data_for_sensors")>>
                      /\ pc' = "except"
                      /\ datas' = datas
    /\ UNCHANGED <<argv, args_macs, macs, response, exitStatus>>

\* line 39
PrintFetched ==
    /\ pc = "print_fetched"
    /\ trace' = Append(trace, Printed("Ruuvi sensor data has been fetched", <<>>))
    /\ pc' = "post"
    /\ UNCHANGED <<argv, args_macs, macs, datas, response, exc, exitStatus>>

\* line 41: requests.post(url, json=datas, timeout=4)
Post ==
    /\ pc = "post"
    /\ LET call == [ev |-> "post", url |-> url, json |-> PostBody(datas[1]),
                    timeout |-> post_timeout]
       IN  \/ \E st \in Statuses :
                 /\ response' = <<st>>
                 /\ trace' = Append(trace, call)
                 /\ pc' = "raise_for_status"
                 /\ exc' = exc
           \/ \E cls \in PostRaises :
                 /\ exc' = <<cls>>
                 /\ trace' = trace \o <<call, Raised(cls, "post")>>
                 /\ pc' = "except"
                 /\ response' = response
    /\ UNCHANGED <<argv, args_macs, macs, datas, exitStatus>>

\* line 42: response.raise_for_status()
RaiseForStatus ==
    /\ pc = "raise_for_status"
    /\ IF IsErrorStatus(response[1])
       THEN /\ exc' = <<"requests.HTTPError">>
            /\ trace' = Append(trace, Raised("requests.HTTPError", "raise_for_status"))
            /\ pc' = "except"
       ELSE /\ exc' = exc
            /\ trace' = trace
            /\ pc' = "print_posted"
    /\ UNCHANGED <<argv, args_macs, macs, datas, response, exitStatus>>

\* line 43
PrintPosted ==
    /\ pc = "print_posted"
    /\ trace' = Append(trace, Printed("Ruuvi sensor data has been POST to API", <<>>))
    /\ pc' = "exit"
    /\ UNCHANGED <<argv, args_macs, macs, datas, response, exc, exitStatus>>

\* lines 45-46 with the success line of line 43 placed after the try statement
ExceptRequestExceptionThenSuccess ==
    /\ pc = "except"
    /\ IsRequestException(exc[1])
    /\ trace' = Append(trace, Printed("Error making POST request:", exc[1]))
    /\ exc' = <<>>
    /\ pc' = "print_posted"
    /\ UNCHANGED <<argv, args_macs, macs, datas, response, exitStatus>>

\* lines 45-46: except requests.exceptions.RequestException as e
ExceptRequestException ==
    /\ pc = "except"
    /\ IsRequestException(exc[1])
    /\ trace' = Append(trace, Printed("Error making POST request:", exc[1]))
    /\ exc' = <<>>
    /\ pc' = "exit"
    /\ UNCHANGED <<argv, args_macs, macs, datas, response, exitStatus>>

\* lines 47-48 inside a retry loop: the try block is run again after the log line
ExceptExceptionRetries ==
    /\ pc = "except"
    /\ ~IsRequestException(exc[1])
    /\ trace' = Append(trace, Printed("Error in script:", exc[1]))
    /\ exc' = <<>>
    /\ pc' = "get_data"
    /\ UNCHANGED <<argv, args_macs, macs, datas, response, exitStatus>>

\* lines 47-48: except Exception as e; an exception no clause matches leaves the
\* try statement and ends the process with a traceback
ExceptException ==
    /\ pc = "except"
    /\ ~IsRequestException(exc[1])
    /\ IF IsException(exc[1])
       THEN /\ trace' = Append(trace, Printed("Error in script:", exc[1]))
            /\ exc' = <<>>
            /\ pc' = "exit"
            /\ exitStatus' = exitStatus
       ELSE /\ trace' = trace
            /\ exc' = exc
            /\ pc' = "done"
            /\ exitStatus' = <<UncaughtExit>>
    /\ UNCHANGED <<argv, args_macs, macs, datas, response>>

\* line 50: exit(0)
Exit ==
    /\ pc = "exit"
    /\ exitStatus' = <<ExitOk>>
    /\ pc' = "done"
    /\ UNCHANGED <<argv, args_macs, macs, datas, response, exc, trace>>

Next ==
    \/ ParseArgs
    \/ CheckMacs
    \/ GetData
    \/ PrintFetched
    \/ Post
    \/ RaiseForStatus
    \/ PrintPosted
    \/ ExceptRequestException
    \/ ExceptException
    \/ Exit

Spec == Init /\ [][Next]_vars

----------------------------------------------------------------------------
(* Reading the trace *)

At(kind) == {i \in DOMAIN trace : trace[i].ev = kind}

PrintsOf(line) == {i \in At("print") : trace[i].line = line}

RaisesAt(stmt) == {i \in At("raise") : trace[i].at = stmt}

ErrorPrints == PrintsOf("Error making POST request:") \cup PrintsOf("Error in script:")

\* the try statement and everything in it is over
AfterTry == pc \in {"exit", "done"} /\ argv.ok

\* the run got past line 38
PastGetData == argv.ok /\ pc \notin {"parse_args", "check_macs", "get_data"}

Absent == argv.ok /\ argv.macs = <<>>

\* sep.join(l)
RECURSIVE Join(_, _)
Join(l, sep) ==
    IF Len(l) = 0 THEN <<>>
    ELSE IF Len(l) = 1 THEN l[1]
    ELSE l[1] \o <<sep>> \o Join(Tail(l), sep)

\* s.count(",")
Commas(s) == Cardinality({i \in DOMAIN s : s[i] = ","})

----------------------------------------------------------------------------
(* C1..C10 *)

\* C1: once the retrieval call has returned a reading set D and line 41 has run,
\* the run holds a POST to http://localhost:3001/api/ruuvi whose json body is D,
\* unchanged; no POST of the run carries anything else.
C1_PostBodyIsReadingSet ==
    /\ \A i \in At("post") :
          /\ datas # <<>>
          /\ trace[i].url = "http://localhost:3001/api/ruuvi"
          /\ trace[i].json = datas[1]
    /\ (datas # <<>> /\ pc \notin {"print_fetched", "post"}) => At("post") # {}

\* the run of the spec's example: the sensor returned {"AA:BB:CC": {"temperature": 21.5}}
C1_Witness ==
    /\ pc = "done"
    /\ datas = << [k \in {"AA:BB:CC"} |-> [temperature |-> 215]] >>
    /\ \E i \in At("post") : trace[i].json = [k \in {"AA:BB:CC"} |-> [temperature |-> 215]]

\* C2: when the retrieval call raises, no POST is ever issued, one error line is
\* logged by the time the try statement is left, and the process ends with status 0.
C2_RetrievalRaiseLoggedNoPost ==
    RaisesAt("get_data_for_sensors") # {} =>
        /\ At("post") = {}
        /\ pc \in {"exit", "done"} => ErrorPrints # {}
        /\ pc \in {"except", "exit", "done"}
        /\ pc = "done" => exitStatus = <<0>>

C2_Witness ==
    /\ pc = "done"
    /\ RaisesAt("get_data_for_sensors") # {}
    /\ \E i \in RaisesAt("get_data_for_sensors") : trace[i].cls = "RuntimeError"

\* C3: when the endpoint answers with an error status (4xx or 5xx, e.g. 500), the
\* status check raises, the failure line is logged, the success line is never
\* printed, and the process ends with status 0.
C3_ErrorStatusDetected ==
    (response # <<>> /\ response[1] >= 400) =>
        /\ PrintsOf("Ruuvi sensor data has been POST to API") = {}
        /\ pc \in {"raise_for_status", "except", "exit", "done"}
        /\ pc # "raise_for_status" => RaisesAt("raise_for_status") # {}
        /\ pc \in {"exit", "done"} => PrintsOf("Error making POST request:") # {}
        /\ pc = "done" => exitStatus = <<0>>

C3_Witness ==
    /\ pc = "done"
    /\ response = <<500>>
    /\ PrintsOf("Error making POST request:") # {}

\* C4: a run that got past argument parsing always goes on until it ends, and it
\* ends with status 0 whatever the retrieval call and the POST did.
C4_AlwaysExitsZero ==
    argv.ok =>
        /\ pc = "done" => exitStatus = <<0>>
        /\ pc # "done" => (exitStatus = <<>> /\ ENABLED Next)

\* a run that ended after a transport error of the POST
C4_Witness ==
    /\ pc = "done"
    /\ exitStatus = <<0>>
    /\ \E i \in RaisesAt("post") : trace[i].cls = "requests.ConnectionError"

\* C5 (as claimed): without --macs the script logs 'No MAC addresses provided' and
\* then still calls the retrieval capability.
C5_AbsentStillCallsRetrieval ==
    (Absent /\ PastGetData) =>
        /\ PrintsOf("No MAC addresses provided.") # {}
        /\ At("get_data_for_sensors") # {}

\* C6: without --macs the first thing the run does is log the no-addresses line,
\* and it arrives at the retrieval statement with no exception raised and the
\* process still running.
C6_AbsentLogsAndReachesRetrieval ==
    (Absent /\ pc \notin {"parse_args", "check_macs"}) =>
        /\ trace[1] = Printed("No MAC addresses provided.", <<>>)
        /\ pc = "get_data" =>
              /\ trace = <<Printed("No MAC addresses provided.", <<>>)>>
              /\ exc = <<>>
              /\ exitStatus = <<>>
        /\ \A i \in At("raise") : i > 1

C6_Witness == Absent /\ pc = "get_data"

\* C7: for a non-empty --macs string s the list handed to the retrieval call is s
\* split at each comma: n commas give n + 1 segments, in order, none holding a
\* comma, which joined by commas give s back (nothing trimmed, dropped or merged);
\* 'AA:BB:CC,DD:EE:FF' gives ['AA:BB:CC', 'DD:EE:FF'].
C7_IdentifiersAreCommaSplit ==
    \A i \in At("get_data_for_sensors") :
        LET l == trace[i].macs
            s == argv.macs[1]
        IN  /\ argv.macs # <<>> /\ s # <<>>
            /\ Len(l) = Commas(s) + 1
            /\ \A k \in DOMAIN l : Commas(l[k]) = 0
            /\ Join(l, ",") = s
            /\ s = ExampleMacs =>
                  l = << <<"A","A",":","B","B",":","C","C">>,
                         <<"D","D",":","E","E",":","F","F">> >>

\* --macs " ,," reaches the retrieval call as [" ", "", ""]
C7_Witness ==
    /\ argv.macs = << <<" ", ",", ",">> >>
    /\ \E i \in At("get_data_for_sensors") : trace[i].macs = << <<" ">>, <<>>, <<>> >>

\* C8: a run calls the retrieval capability at most once and issues at most one
\* POST, also after a failure; it has issued exactly one POST once line 41 has run
\* after a normal return of the retrieval call.
C8_AtMostOneCallEach ==
    /\ Cardinality(At("get_data_for_sensors")) <= 1
    /\ Cardinality(At("post")) <= 1
    /\ (datas # <<>> /\ pc \notin {"print_fetched", "post"}) =>
           Cardinality(At("post")) = 1
    /\ datas = <<>> => At("post") = {}

\* a run that ended after the status check failed
C8_Witness ==
    /\ pc = "done"
    /\ RaisesAt("raise_for_status") # {}
    /\ Cardinality(At("post")) = 1

\* C9: a run logs at most one error line; once the try statement is over it has
\* logged 'Error making POST request' exactly when a RequestException was raised in
\* it, 'Error in script' exactly when another exception was, and the success line
\* exactly when none was.
C9_OneErrorLinePerFailure ==
    /\ Cardinality(ErrorPrints) <= 1
    /\ Cardinality(At("raise")) <= 1
    /\ ErrorPrints # {} => PrintsOf("Ruuvi sensor data has been POST to API") = {}
    /\ AfterTry =>
          LET http == {i \in At("raise") : trace[i].cls \in
                          {"requests.ConnectionError", "requests.Timeout",
                           "requests.HTTPError"}}
          IN  /\ PrintsOf("Error making POST request:") # {} <=> http # {}
              /\ PrintsOf("Error in script:") # {} <=> At("raise") \ http # {}
              /\ PrintsOf("Ruuvi sensor data has been POST to API") # {}
                    <=> At("raise") = {}

\* a run in which requests.post raised something that is no RequestException
C9_Witness ==
    /\ pc = "done"
    /\ \E i \in RaisesAt("post") : trace[i].cls = "TypeError"
    /\ PrintsOf("Error in script:") # {}

\* C10: the steps come in one order: a POST comes after the retrieval call and the
\* 'fetched' line, with nothing raised before it; the 'POST to API' line comes
\* after a POST whose response passed the status check, with nothing raised before
\* it; and after a raise the run does nothing but log one error line.
C10_FixedStepOrder ==
    /\ \A j \in At("post") :
          /\ \E i \in At("get_data_for_sensors") :
                \E k \in PrintsOf("Ruuvi sensor data has been fetched") :
                    i < k /\ k < j
          /\ \A r \in At("raise") : r > j
    /\ \A p \in PrintsOf("Ruuvi sensor data has been POST to API") :
          /\ \E j \in At("post") : j < p
          /\ response # <<>> /\ response[1] < 400
          /\ At("raise") = {}
    /\ \A k \in PrintsOf("Ruuvi sensor data has been fetched") :
          \E i \in At("get_data_for_sensors") : i < k
    /\ \A r \in At("raise") : \A m \in DOMAIN trace :
          m > r => m \in ErrorPrints /\ m = r + 1

\* a complete successful run: call, 'fetched', POST, 'POST to API'
C10_Witness ==
    /\ pc = "done"
    /\ Len(trace) = 5
    /\ trace[2].ev = "get_data_for_sensors"
    /\ trace[4].ev = "post"
    /\ PrintsOf("Ruuvi sensor data has been POST to API") = {5}

====
